---- MODULE Spec2Model ----
(***************************************************************************)
(* The Square-Sum Problem Solver (All Paths Version).                      *)
(*                                                                         *)
(* Path objects live in a heap (a sequence of records; a reference is an   *)
(* index into it), because the solver's lists hold references to mutable   *)
(* Path objects.  A Vertex carries only an immutable id and is modelled by *)
(* that id.  The solver's loops are modelled one iteration per step, the   *)
(* position being kept in pc, sel and app.                                 *)
(***************************************************************************)
EXTENDS Integers, Sequences, FiniteSets

\* The driver loop `while True: solver.solveNext()` is cut after MaxN calls.
MaxN == 15

VARIABLES pc, i, heap, paths, newAppendedPaths, newExtendedPaths,
          connections, sel, app, solutions, report

vars == <<pc, i, heap, paths, newAppendedPaths, newExtendedPaths,
          connections, sel, app, solutions, report>>

----------------------------------------------------------------------------
(* Pure helpers *)

\* math.sqrt(s) == math.floor(math.sqrt(s)): the IEEE square root is
\* correctly rounded, so for the sums that occur here (below 2^52) it is an
\* integer exactly when s is a perfect square.
IsSquare(s) == \E k \in 0..s : k * k = s

\* range(0, id) instead of range(1, id)
getVertexConnections_from0(v) == {c \in 0..(v - 1) : IsSquare(c + v)}

\* range(2, id) instead of range(1, id)
getVertexConnections_skip1(v) == {c \in 2..(v - 1) : IsSquare(c + v)}

getVertexConnections(v) == {c \in 1..(v - 1) : IsSquare(c + v)}

checkVertexWithConnections(v, conns) == v \in conns

countLength(path) == Len(path) - 1

Path(v) ==
  [start |-> v, end |-> v, vertices |-> {v}, path |-> <<v>>,
   length |-> countLength(<<v>>)]

\* the Vertex object itself looked up in the dictionary keyed by id: never
\* found
hasVertex_object(p, v) == FALSE

hasVertex(p, v) == v \in p.vertices

hasVertices(p, vs) == \E k \in 1..Len(vs) : hasVertex(p, vs[k])

appendVertices(own, more) == own \cup more

\* the merged object: a deep copy of the first operand with end, vertices,
\* path and length rewritten
Merged(first, second) ==
  [first EXCEPT !.end = second.end,
                !.vertices = appendVertices(@, second.vertices),
                !.path = first.path \o second.path,
                !.length = countLength(first.path \o second.path)]

\* the deep copy left out: newPath is firstPath itself
mergePaths_nocopy(h, a, b) ==
  [heap |-> [h EXCEPT ![a] = Merged(h[a], h[b])], ref |-> a]

\* the assignment of newPath.end left out
mergePaths_noend(h, a, b) ==
  [heap |-> Append(h, [Merged(h[a], h[b]) EXCEPT !.end = h[a].end]),
   ref |-> Len(h) + 1]

\* mergePaths(firstPath, secondPath): the heap after the call and the
\* reference it returns
mergePaths(h, a, b) ==
  [heap |-> Append(h, Merged(h[a], h[b])), ref |-> Len(h) + 1]

maxLength(n, p) == n - p.length - 2

\* the three `continue` tests of expandAppendedPaths joined with "and"
skipAppended_and(n, p, q, conns) ==
  /\ q.length > maxLength(n, p)
  /\ ~checkVertexWithConnections(q.start, conns)
  /\ hasVertices(p, q.path)

\* the three `continue` tests of expandAppendedPaths
skipAppended(n, p, q, conns) ==
  \/ q.length > maxLength(n, p)
  \/ ~checkVertexWithConnections(q.start, conns)
  \/ hasVertices(p, q.path)

\* length compared with i instead of i-1
getSolutions_offby1(h, ps, n) == SelectSeq(ps, LAMBDA r : h[r].length = n)

getSolutions(h, ps, n) == SelectSeq(ps, LAMBDA r : h[r].length = n - 1)

----------------------------------------------------------------------------
(* The solver *)

Init ==
  /\ pc = "idle"
  /\ i = 0
  /\ heap = <<>>
  /\ paths = <<>>
  /\ newAppendedPaths = <<>>
  /\ newExtendedPaths = <<>>
  /\ connections = {}
  /\ sel = 1
  /\ app = 1
  /\ solutions = <<>>
  /\ report = "none"

\* solveNext up to the call of appendExistingPaths
solveNext ==
  /\ pc = "idle"
  /\ i < MaxN
  /\ i' = i + 1
  /\ connections' = getVertexConnections(i + 1)
  /\ pc' = "appendExistingPaths"
  /\ UNCHANGED <<heap, paths, newAppendedPaths, newExtendedPaths, sel, app,
                 solutions, report>>

\* appendExistingPaths before its loop
appendExistingPaths ==
  /\ pc = "appendExistingPaths"
  /\ heap' = Append(heap, Path(i))
  /\ newAppendedPaths' = <<Len(heap) + 1>>
  /\ sel' = 1
  /\ pc' = "appendLoop"
  /\ UNCHANGED <<i, paths, newExtendedPaths, connections, app, solutions,
                 report>>

\* one iteration of the loop of appendExistingPaths
appendLoop ==
  /\ pc = "appendLoop"
  /\ sel <= Len(paths)
  /\ IF checkVertexWithConnections(heap[paths[sel]].end, connections)
       THEN LET m == mergePaths(heap, paths[sel], newAppendedPaths[1])
            IN /\ heap' = m.heap
               /\ newAppendedPaths' = Append(newAppendedPaths, m.ref)
       ELSE UNCHANGED <<heap, newAppendedPaths>>
  /\ sel' = sel + 1
  /\ UNCHANGED <<pc, i, paths, newExtendedPaths, connections, app,
                 solutions, report>>

\* expandAppendedPaths before its loops
expandAppendedPaths ==
  /\ pc = "appendLoop"
  /\ sel > Len(paths)
  /\ newExtendedPaths' = <<>>
  /\ sel' = 1
  /\ app' = 1
  /\ pc' = "expandLoop"
  /\ UNCHANGED <<i, heap, paths, newAppendedPaths, connections, solutions,
                 report>>

\* one iteration of the inner loop of expandAppendedPaths
expandInner ==
  /\ pc = "expandLoop"
  /\ sel <= Len(newAppendedPaths)
  /\ app <= Len(paths)
  /\ IF skipAppended(i, heap[newAppendedPaths[sel]], heap[paths[app]],
                     connections)
       THEN UNCHANGED <<heap, newExtendedPaths>>
       ELSE LET m == mergePaths(heap, newAppendedPaths[sel], paths[app])
            IN /\ heap' = m.heap
               /\ newExtendedPaths' = Append(newExtendedPaths, m.ref)
  /\ app' = app + 1
  /\ UNCHANGED <<pc, i, paths, newAppendedPaths, connections, sel,
                 solutions, report>>

\* the inner loop is exhausted: the outer loop takes the next appended path
expandOuter ==
  /\ pc = "expandLoop"
  /\ sel <= Len(newAppendedPaths)
  /\ app > Len(paths)
  /\ sel' = sel + 1
  /\ app' = 1
  /\ UNCHANGED <<pc, i, heap, paths, newAppendedPaths, newExtendedPaths,
                 connections, solutions, report>>

\* both loops of mergeAllPaths run over newAppendedPaths
mergeAllPaths_twice ==
  /\ pc = "expandLoop"
  /\ sel > Len(newAppendedPaths)
  /\ paths' = paths \o newAppendedPaths \o newAppendedPaths
  /\ pc' = "getSolutions"
  /\ UNCHANGED <<i, heap, newAppendedPaths, newExtendedPaths, connections,
                 sel, app, solutions, report>>

mergeAllPaths ==
  /\ pc = "expandLoop"
  /\ sel > Len(newAppendedPaths)
  /\ paths' = paths \o newAppendedPaths \o newExtendedPaths
  /\ pc' = "getSolutions"
  /\ UNCHANGED <<i, heap, newAppendedPaths, newExtendedPaths, connections,
                 sel, app, solutions, report>>

\* the rest of solveNext: getSolutions and the OK / FAIL report
reportSolutions ==
  /\ pc = "getSolutions"
  /\ solutions' = getSolutions(heap, paths, i)
  /\ report' = IF Len(solutions') = 0 THEN "FAIL" ELSE "OK"
  /\ pc' = "idle"
  /\ UNCHANGED <<i, heap, paths, newAppendedPaths, newExtendedPaths,
                 connections, sel, app>>

Next ==
  \/ solveNext
  \/ appendExistingPaths
  \/ appendLoop
  \/ expandAppendedPaths
  \/ expandInner
  \/ expandOuter
  \/ mergeAllPaths
  \/ reportSolutions

Spec == Init /\ [][Next]_vars

----------------------------------------------------------------------------
(* The square-sum graph, computed independently of the solver *)

Ids(s) == {s[k] : k \in 1..Len(s)}

Adjacent(s) == \A k \in 1..(Len(s) - 1) : IsSquare(s[k] + s[k + 1])

RECURSIVE PathsOfSize(_, _)
\* the sequences of k distinct integers of 1..n whose adjacent pairs sum to
\* a perfect square
PathsOfSize(n, k) ==
  IF k = 1
    THEN {<<v>> : v \in 1..n}
    ELSE UNION {{Append(s, v) :
                   v \in {w \in 1..n : w \notin Ids(s) /\ IsSquare(s[k - 1] + w)}} :
                s \in PathsOfSize(n, k - 1)}

SquareSumPaths(n) == UNION {PathsOfSize(n, k) : k \in 1..n}

Orderings(n) == PathsOfSize(n, n)

IsOrdering(s, n) == Len(s) = n /\ Ids(s) = 1..n /\ Adjacent(s)

StorePaths == {heap[paths[k]].path : k \in 1..Len(paths)}

SolutionPaths == {heap[solutions[k]].path : k \in 1..Len(solutions)}

\* the state after a call of solveNext has returned
Returned == pc = "idle" /\ i >= 1

\* the step is a bridging merge of expandAppendedPaths
BridgingMerge ==
  pc = "expandLoop" /\ Len(newExtendedPaths') = Len(newExtendedPaths) + 1

BridgeP == heap[newAppendedPaths[sel]]

BridgeQ == heap[paths[app]]

----------------------------------------------------------------------------
(* Claims *)

\* C1: after the n-th call of solveNext the report is OK exactly when some
\* ordering of 1..n has every adjacent pair summing to a perfect square, and
\* FAIL otherwise; for n in 2..14 it is FAIL.
C1_ReportIffOrdering ==
  Returned =>
    /\ report \in {"OK", "FAIL"}
    /\ (report = "OK") <=> (Orderings(i) # {})
    /\ (i \in 2..14) => (report = "FAIL")

C1_Witness == Returned /\ i = 15 /\ report = "OK" /\ Orderings(i) # {}

\* C2: after step n every path getSolutions returns, and every path of the
\* store with length n-1, holds each integer of 1..n exactly once with every
\* adjacent pair summing to a perfect square.
C2_SolutionsAreOrderings ==
  Returned =>
    /\ \A k \in 1..Len(paths) :
         (heap[paths[k]].length = i - 1) => IsOrdering(heap[paths[k]].path, i)
    /\ \A k \in 1..Len(solutions) : IsOrdering(heap[solutions[k]].path, i)

C2_Witness == Returned /\ i >= 2 /\ Len(solutions) >= 2

\* C3: after the 15th call the report is OK and the solutions include
\* 8,1,15,10,6,3,13,12,4,5,11,14,2,7,9.
C3_Fifteen ==
  (Returned /\ i = 15) =>
    /\ report = "OK"
    /\ <<8, 1, 15, 10, 6, 3, 13, 12, 4, 5, 11, 14, 2, 7, 9>> \in SolutionPaths

C3_Witness == Returned /\ i = 15 /\ Cardinality(SolutionPaths) >= 1

\* C4: after the first call the connection set of vertex 1 is empty, the
\* store holds only the singleton path 1, and the report is OK with exactly
\* one solution, the path 1.
C4_First ==
  (Returned /\ i = 1) =>
    /\ connections = {}
    /\ Len(paths) = 1
    /\ heap[paths[1]].path = <<1>>
    /\ report = "OK"
    /\ Len(solutions) = 1
    /\ heap[solutions[1]].path = <<1>>

C4_Witness == pc = "idle" /\ i = 1 /\ report = "OK"

\* C5: the store is append-only: no step removes a stored path, moves it to
\* another position or changes its sequence, start, end, members or length.
C5_AppendOnly ==
  [][/\ Len(paths') >= Len(paths)
     /\ \A k \in 1..Len(paths) :
          /\ paths'[k] = paths[k]
          /\ heap'[paths'[k]] = heap[paths[k]]]_vars

\* the step that has just extended a non-empty store, after stored paths were
\* merged as first operand (appending) and as second operand (bridging)
C5_Witness ==
  /\ pc = "getSolutions"
  /\ Len(newAppendedPaths) >= 2
  /\ Len(newExtendedPaths) >= 1
  /\ Len(paths) > Len(newAppendedPaths) + Len(newExtendedPaths)

\* C6: every stored path has no id twice in its sequence, its members are
\* exactly the ids of its sequence, its length is the number of its vertices
\* minus 1, and its start and end are its first and last vertices.
C6_PathInvariant ==
  \A k \in 1..Len(paths) :
    LET p == heap[paths[k]]
    IN /\ Len(p.path) >= 1
       /\ Cardinality(Ids(p.path)) = Len(p.path)
       /\ p.vertices = Ids(p.path)
       /\ p.length = Len(p.path) - 1
       /\ p.start = p.path[1]
       /\ p.end = p.path[Len(p.path)]

C6_Witness == \E k \in 1..Len(paths) : heap[paths[k]].length >= 2

\* C7: in every bridging merge p ++ q of expandAppendedPaths, p and q share
\* no vertex and the members of the merged path are the union of theirs.
C7_BridgeDisjoint ==
  [][BridgingMerge =>
       /\ BridgeP.vertices \cap BridgeQ.vertices = {}
       /\ Ids(BridgeP.path) \cap Ids(BridgeQ.path) = {}
       /\ heap'[newExtendedPaths'[Len(newExtendedPaths')]].vertices
            = BridgeP.vertices \cup BridgeQ.vertices]_vars

C7_Witness == pc = "expandLoop" /\ Len(newExtendedPaths) >= 1

\* C8 as stated: in every bridging merge p ++ q, q.length <= n - p.length - 2
\* with n the size of the range before the new vertex was added.
C8_BoundBeforeAdding ==
  [][BridgingMerge =>
       BridgeQ.length <= (i - 1) - BridgeP.length - 2]_vars

\* C8 amended: in every bridging merge p ++ q, q.length <= n - p.length - 2
\* with n the size of the range that includes the new vertex (the solver's
\* counter, which equals the new vertex).
C8_BoundAfterAdding ==
  [][BridgingMerge =>
       /\ BridgeQ.length <= i - BridgeP.length - 2
       /\ Len(BridgeQ.path) - 1 <= i - (Len(BridgeP.path) - 1) - 2]_vars

\* a bridging merge has produced a path that meets the bound exactly
C8_Witness ==
  /\ pc = "expandLoop"
  /\ Len(newExtendedPaths) >= 1
  /\ heap[newExtendedPaths[Len(newExtendedPaths)]].length = i - 1

\* C9: after step n every non-empty sequence of distinct integers of 1..n
\* whose adjacent pairs sum to a perfect square is the sequence of a stored
\* path, and every valid ordering of 1..n is among the solutions.
C9_AllPathsTracked ==
  Returned =>
    /\ SquareSumPaths(i) \subseteq StorePaths
    /\ Orderings(i) \subseteq SolutionPaths

\* the store holds a path that runs from the newer vertex to the older one
C9_Witness == Returned /\ i >= 3 /\ <<3, 1>> \in StorePaths

\* C10: no two entries of the store have the same vertex sequence, and no
\* solution is reported twice.
C10_NoDuplicates ==
  /\ Cardinality(StorePaths) = Len(paths)
  /\ Returned => (Cardinality(SolutionPaths) = Len(solutions))

C10_Witness ==
  /\ Returned
  /\ Len(solutions) >= 2
  /\ Cardinality(SolutionPaths) = Len(solutions)

====
